---- MODULE Spec2Model ----
(***************************************************************************)
(* Model of the safro-faucet edge function: the request handler (serve),   *)
(* the dispatcher sendTokens with its retry loop, the sequence stabilizer  *)
(* waitForSequenceStable and the confirmation poll waitForSequenceUpdate.  *)
(* Every await of the source is one step of the request that runs it; the  *)
(* audit store, the config table, the geolocation service and the chain    *)
(* RPC are the environment and answer nondeterministically.                *)
(***************************************************************************)
EXTENDS Integers, Sequences, FiniteSets, TLC

(* ---------------------------------------------------------------- bounds *)
MaxPrior == 1        \* success records already in the store, per key
MaxCfgLimit == 1     \* largest configured requests_limit_per_day
MaxSeq == 1          \* the chain's account sequence is capped here
MaxStabSeq == 3      \* the same cap, where waitForSequenceStable runs alone
MaxSubmits == 2      \* submissions of the client form that are followed

(* ------------------------------------------------------ program constants *)
DefaultLimit == 3
InitialRetries == 5
requiredStableChecks == 5
StableMaxWaitMs == 10000
StablePollMs == 800
SettleMs == 1000
UpdateMaxWaitMs == 15000
UpdatePollMs == 1000
SeqBackoffMs == 5000
OtherBackoffMs == 1000

(* ------------------------------------------------------------ the inputs *)
Reqs == {"r1"}
Null == "null"
NoHash == <<>>
NoIp == ""
IPs == {"ip1"}
\* strings are sequences of characters, so that startsWith is computed
PREFIX == <<"s", "f">>
GoodAddr == <<"s", "f", "1">>
BadAddr == <<"c", "o", "1">>
EmptyAddr == <<>>
Receivers == {GoodAddr, BadAddr, EmptyAddr}

\* error messages are sequences of words, so that includes() is computed
SeqMismatchMsg == <<"account", "sequence", "mismatch">>
TransportMsg == <<"socket", "hang", "up">>
FinalCheckMsg == <<"Sequence", "changed", "right", "before", "signing">>
ConfigFetchMsg == <<"Failed", "to", "fetch", "faucet", "config">>
ConfigInvalidMsg == <<"Invalid", "or", "missing", "MNEMONIC", "configuration">>
BadBodyMsg == <<"Unexpected", "end", "of", "JSON", "input">>
AuditThrowMsg == <<"error", "sending", "request">>
RetriesPrefix == <<"Transaction", "failed", "after", "multiple", "retries:">>
NoMsg == <<>>

\* needle occurs in hay as a contiguous run (String.prototype.includes)
Includes(hay, needle) ==
  \E i \in 1..(Len(hay) - Len(needle) + 1) :
     SubSeq(hay, i, i + Len(needle) - 1) = needle

StartsWith(s, p) == Len(s) >= Len(p) /\ SubSeq(s, 1, Len(p)) = p

\* a Response: its status and the fields of its JSON body; a body without
\* a success field has hasSuccess = FALSE
Response(status, hasSuccess, success, hash, kind, error) ==
  [status |-> status, hasSuccess |-> hasSuccess, success |-> success,
   transactionHash |-> hash, rateLimitType |-> kind, error |-> error]

NoResponse == Response(0, FALSE, FALSE, NoHash, Null, NoMsg)

VARIABLES
  seq,      \* the funding account's sequence as the chain reports it
  cfg,      \* the newest row of safro_faucet_config
  prior,    \* success rows of the last 24h already in user_requests, per key
  audit,    \* records appended to user_requests by the modelled requests
  hs,       \* per request: the handler's locals and its position
  ds,       \* per request: sendTokens' locals
  resp,     \* per request: the Response returned (status 0: none yet)
  calls,    \* per request: the insertUserRequest calls made, with outcome
  obs,      \* per request: what the environment saw sendTokens do
  form      \* the client's FaucetForm: its state and the position of handleSubmit

vars == <<seq, cfg, prior, audit, hs, ds, resp, calls, obs, form>>

HsInit ==
  [pc |-> "idle", ip |-> NoIp, receiver_address |-> EmptyAddr, region |-> Null,
   limit |-> 0, ipRequestCount |-> 0, addressRequestCount |-> 0,
   decision |-> Null,
   tx_success |-> FALSE, tx_hash |-> NoHash, error |-> NoMsg]

DsInit ==
  [retries |-> 0, lastSequence |-> 0, stableCount |-> 0, elapsed |-> 0,
   stableSequence |-> 0, finalSequence |-> 0, result |-> NoHash,
   caught |-> NoMsg, txError |-> NoMsg]

ObsInit ==
  [connects |-> 0, conflicts |-> 0, delivered |-> 0, firstOk |-> 0,
   timedOut |-> FALSE, backoff |-> 0, stab |-> "none", reads |-> 0, last |-> 0]

\* the form as it is mounted: useState('') and useState(false); reply is
\* the answer of the fetch of sendTransaction, toast the last toast shown,
\* sent the argument of the running sendTransaction call and submits the
\* number of handleSubmit calls that have finished
FormInit ==
  [pc |-> "idle", address |-> EmptyAddr, isLoading |-> FALSE, sent |-> EmptyAddr,
   reply |-> NoResponse, toast |-> "none", submits |-> 0]

Init ==
  /\ seq = 0
  /\ cfg \in [requests_limit_per_day : 0..MaxCfgLimit, valid : BOOLEAN]
  /\ prior \in [ip : [IPs -> 0..MaxPrior], address : [Receivers -> 0..MaxPrior]]
  /\ \A k \in Receivers : ~StartsWith(k, PREFIX) => prior.address[k] = 0
  /\ audit = <<>>
  /\ hs = [r \in Reqs |-> HsInit]
  /\ ds = [r \in Reqs |-> DsInit]
  /\ resp = [r \in Reqs |-> NoResponse]
  /\ calls = [r \in Reqs |-> <<>>]
  /\ obs = [r \in Reqs |-> ObsInit]
  /\ form = FormInit


(* ------------------------------------------------------- the audit store *)
\* recent: request_timestamp, set by the store to the time of the insert, is
\* not older than 24 hours
AuditRecord(r, region, success, hash) ==
  [req |-> r, ip_address |-> hs[r].ip, region |-> region,
   receiver_address |-> hs[r].receiver_address,
   success |-> success, transaction_hash |-> hash, recent |-> TRUE]

\* as CountByIp, with the success filter dropped from the query
CountByIpAllRows(ip) ==
  prior.ip[ip] + Cardinality({i \in 1..Len(audit) :
                              audit[i].recent /\ audit[i].ip_address = ip})

\* rows with success = true and the key, inside the 24h window
CountByIp(ip) ==
  prior.ip[ip] + Cardinality({i \in 1..Len(audit) :
                              /\ audit[i].success
                              /\ audit[i].recent
                              /\ audit[i].ip_address = ip})

CountByAddress(address) ==
  prior.address[address] + Cardinality({i \in 1..Len(audit) :
                              /\ audit[i].success
                              /\ audit[i].recent
                              /\ audit[i].receiver_address = address})

\* as getRequestCountByIp, with every answer of the store taken for a failure
getRequestCountByIpBlind(ip, ok) == 0

\* getRequestCountByIp / getRequestCountByAddress: a failed query counts 0
getRequestCountByIp(ip, ok) == IF ok THEN CountByIp(ip) ELSE 0

\* as getRequestCountByAddress, failing closed: a failed query counts as a
\* full quota
getRequestCountByAddressClosed(address, ok) ==
  IF ok THEN CountByAddress(address) ELSE DefaultLimit

getRequestCountByAddress(address, ok) == IF ok THEN CountByAddress(address) ELSE 0

AuditOutcomes == {"ok", "nonok", "throw"}

\* insertUserRequest: the row is stored only when the store answers OK;
\* a non-OK answer is logged, a rejected fetch is thrown to the caller
insertUserRequest(r, rec, outcome) ==
  /\ calls' = [calls EXCEPT ![r] = Append(@, [rec |-> rec, outcome |-> outcome])]
  /\ audit' = IF outcome = "ok" THEN Append(audit, rec) ELSE audit

(* ------------------------------------------------------------ the handler *)
RequestsLimit(configured) == IF configured = 0 THEN DefaultLimit ELSE configured

\* as QuotaDecision, with a count equal to the limit still admitted
QuotaDecisionStrict(ipCount, addrCount, limit) ==
  IF ipCount > limit /\ addrCount > limit THEN "both"
  ELSE IF ipCount > limit THEN "ip"
  ELSE IF addrCount > limit THEN "address"
  ELSE "allow"

QuotaDecision(ipCount, addrCount, limit) ==
  IF ipCount >= limit /\ addrCount >= limit THEN "both"
  ELSE IF ipCount >= limit THEN "ip"
  ELSE IF addrCount >= limit THEN "address"
  ELSE "allow"

\* as ValidReceiver, without the startsWith test
ValidReceiverNonEmpty(address, prefix) == address # EmptyAddr

\* as ValidReceiver, with the whole test dropped
ValidReceiverAlways(address, prefix) == TRUE

ValidReceiver(address, prefix) == address # EmptyAddr /\ StartsWith(address, prefix)

IpMissingMsg == <<"IP", "address", "could", "not", "be", "determined">>
RateLimitMsg == <<"Rate", "limit", "exceeded">>
InvalidReceiverMsg == <<"Invalid", "receiver", "address">>

\* the catch block of the handler is entered with this error
ToCatch(r, msg) == hs' = [hs EXCEPT ![r].pc = "catch", ![r].error = msg]

\* the request arrives: headers are read and the body is parsed
Receive(r, ip, receiver, bodyOk) ==
  /\ hs[r].pc = "idle"
  /\ IF bodyOk
       THEN hs' = [hs EXCEPT ![r].pc = "config", ![r].ip = ip,
                             ![r].receiver_address = receiver]
       ELSE hs' = [hs EXCEPT ![r].pc = "catch", ![r].ip = ip,
                             ![r].error = BadBodyMsg]
  /\ UNCHANGED <<form, seq, cfg, prior, audit, ds, resp, calls, obs>>

\* fetchFaucetConfig in the handler, then the IP test
HandlerConfig(r, fetched) ==
  /\ hs[r].pc = "config"
  /\ IF ~fetched
       THEN ToCatch(r, ConfigFetchMsg) /\ UNCHANGED resp
       ELSE IF hs[r].ip = NoIp
         THEN /\ hs' = [hs EXCEPT ![r].pc = "done",
                          ![r].limit = RequestsLimit(cfg.requests_limit_per_day)]
              /\ resp' = [resp EXCEPT ![r] = Response(400, TRUE, FALSE, NoHash, Null, IpMissingMsg)]
         ELSE /\ hs' = [hs EXCEPT ![r].pc = "count_ip",
                          ![r].limit = RequestsLimit(cfg.requests_limit_per_day)]
              /\ UNCHANGED resp
  /\ UNCHANGED <<form, seq, cfg, prior, audit, ds, calls, obs>>

CountIp(r, ok) ==
  /\ hs[r].pc = "count_ip"
  /\ hs' = [hs EXCEPT ![r].pc = "count_addr",
                      ![r].ipRequestCount = getRequestCountByIp(hs[r].ip, ok)]
  /\ UNCHANGED <<form, seq, cfg, prior, audit, ds, resp, calls, obs>>

\* the second count, then the rate limit branches and the prefix test
CountAddress(r, ok) ==
  /\ hs[r].pc = "count_addr"
  /\ LET n == getRequestCountByAddress(hs[r].receiver_address, ok)
         d == QuotaDecision(hs[r].ipRequestCount, n, hs[r].limit)
         next == IF d # "allow" THEN "log_denied"
                 ELSE IF ~ValidReceiver(hs[r].receiver_address, PREFIX) THEN "log_invalid"
                 ELSE "region"
     IN hs' = [hs EXCEPT ![r].pc = next, ![r].addressRequestCount = n,
                         ![r].decision = d]
  /\ UNCHANGED <<form, seq, cfg, prior, audit, ds, resp, calls, obs>>

\* a rate limit branch: log the failed request, answer 429
InsertDenied(r, outcome) ==
  /\ hs[r].pc = "log_denied"
  /\ insertUserRequest(r, AuditRecord(r, Null, FALSE, NoHash), outcome)
  /\ IF outcome = "throw"
       THEN ToCatch(r, AuditThrowMsg) /\ UNCHANGED resp
       ELSE /\ hs' = [hs EXCEPT ![r].pc = "done"]
            /\ resp' = [resp EXCEPT ![r] =
                          Response(429, TRUE, FALSE, NoHash, hs[r].decision, RateLimitMsg)]
  /\ UNCHANGED <<form, seq, cfg, prior, ds, obs>>

\* the prefix branch: log the failed request, answer 400
InsertInvalid(r, outcome) ==
  /\ hs[r].pc = "log_invalid"
  /\ insertUserRequest(r, AuditRecord(r, Null, FALSE, NoHash), outcome)
  /\ IF outcome = "throw"
       THEN ToCatch(r, AuditThrowMsg) /\ UNCHANGED resp
       ELSE /\ hs' = [hs EXCEPT ![r].pc = "done"]
            /\ resp' = [resp EXCEPT ![r] =
                          Response(400, FALSE, FALSE, NoHash, Null, InvalidReceiverMsg)]
  /\ UNCHANGED <<form, seq, cfg, prior, ds, obs>>

Regions == {Null, "RW"}

\* as FetchRegion, with a failed lookup raised as an error of the handler
FetchRegionThrows(r, region) ==
  /\ hs[r].pc = "region"
  /\ IF region = Null
       THEN ToCatch(r, AuditThrowMsg)
       ELSE hs' = [hs EXCEPT ![r].pc = "st_config", ![r].region = region]
  /\ UNCHANGED <<form, seq, cfg, prior, audit, ds, resp, calls, obs>>

\* fetchRegion never throws; sendTokens is entered next
FetchRegion(r, region) ==
  /\ hs[r].pc = "region"
  /\ hs' = [hs EXCEPT ![r].pc = "st_config", ![r].region = region]
  /\ UNCHANGED <<form, seq, cfg, prior, audit, ds, resp, calls, obs>>

\* sendTokens returned: log the request, answer 200 with the result
InsertSuccess(r, outcome) ==
  /\ hs[r].pc = "log_success"
  /\ insertUserRequest(r, AuditRecord(r, hs[r].region, hs[r].tx_success, hs[r].tx_hash),
                       outcome)
  /\ IF outcome = "throw"
       THEN ToCatch(r, AuditThrowMsg) /\ UNCHANGED resp
       ELSE /\ hs' = [hs EXCEPT ![r].pc = "done"]
            /\ resp' = [resp EXCEPT ![r] =
                          Response(200, TRUE, hs[r].tx_success, ds[r].result, Null, NoMsg)]
  /\ UNCHANGED <<form, seq, cfg, prior, ds, obs>>

\* as CatchHandler, with the error of the audit append not swallowed: it
\* leaves the handler and no response is returned
CatchHandlerRethrows(r, outcome) ==
  /\ hs[r].pc = "catch"
  /\ insertUserRequest(r, AuditRecord(r, hs[r].region, FALSE, NoHash), outcome)
  /\ hs' = [hs EXCEPT ![r].pc = "done"]
  /\ resp' = IF outcome = "throw" THEN resp
             ELSE [resp EXCEPT ![r] = Response(500, TRUE, FALSE, NoHash, Null, hs[r].error)]
  /\ UNCHANGED <<form, seq, cfg, prior, ds, obs>>

\* the catch block: log the failed request (errors swallowed), answer 500
CatchHandler(r, outcome) ==
  /\ hs[r].pc = "catch"
  /\ insertUserRequest(r, AuditRecord(r, hs[r].region, FALSE, NoHash), outcome)
  /\ hs' = [hs EXCEPT ![r].pc = "done"]
  /\ resp' = [resp EXCEPT ![r] = Response(500, TRUE, FALSE, NoHash, Null, hs[r].error)]
  /\ UNCHANGED <<form, seq, cfg, prior, ds, obs>>


(* ------------------------------------------------------------ sendTokens *)
\* the transaction hash the chain gives the broadcast of attempt n of r
Hash(r, n) == <<r, n>>

\* the attempt the loop is in: "Attempt ${6 - retries}/5"
Attempt(r) == 6 - ds[r].retries

\* as isSequenceError, with the case of the letters ignored
isSequenceErrorAnyCase(errorMessage) ==
  \/ Includes(errorMessage, <<"sequence">>)
  \/ Includes(errorMessage, <<"Sequence">>)

isSequenceError(errorMessage) ==
  \/ Includes(errorMessage, <<"sequence">>)
  \/ Includes(errorMessage, <<"account", "sequence", "mismatch">>)
  \/ Includes(errorMessage, <<"incorrect", "account", "sequence">>)

\* Date.now() - startTime < maxWaitMs: elapsed is the time slept so far, a
\* lower bound of the wall clock; late says the awaited calls used up the rest
TimeLeft(elapsed, maxWaitMs, late) == elapsed < maxWaitMs /\ ~late

\* as SendTokensConfig, with the validation of the config dropped
SendTokensConfigUnchecked(r, fetched) ==
  /\ hs[r].pc = "st_config"
  /\ IF ~fetched THEN ToCatch(r, ConfigFetchMsg) /\ UNCHANGED ds
     ELSE /\ hs' = [hs EXCEPT ![r].pc = "connect"]
          /\ ds' = [ds EXCEPT ![r].retries = InitialRetries]
  /\ UNCHANGED <<form, seq, cfg, prior, audit, resp, calls, obs>>

\* fetchFaucetConfig in sendTokens, then the validation of the config
SendTokensConfig(r, fetched) ==
  /\ hs[r].pc = "st_config"
  /\ IF ~fetched THEN ToCatch(r, ConfigFetchMsg) /\ UNCHANGED ds
     ELSE IF ~cfg.valid THEN ToCatch(r, ConfigInvalidMsg) /\ UNCHANGED ds
     ELSE /\ hs' = [hs EXCEPT ![r].pc = "connect"]
          /\ ds' = [ds EXCEPT ![r].retries = InitialRetries]
  /\ UNCHANGED <<form, seq, cfg, prior, audit, resp, calls, obs>>

\* an error thrown inside the try of the loop body is caught at line 315
\* (the locals of the try block and of the helpers go out of scope)
AttemptLocalsGone(d, r) ==
  [d EXCEPT ![r].lastSequence = 0, ![r].stableCount = 0, ![r].elapsed = 0,
            ![r].stableSequence = 0, ![r].finalSequence = 0]

Caught(r, msg) ==
  /\ hs' = [hs EXCEPT ![r].pc = "backoff"]
  /\ ds' = [AttemptLocalsGone(ds, r) EXCEPT ![r].caught = msg]

\* obs.conflicts counts the broadcasts that raised a sequence conflict for as
\* long as every attempt of the call has ended that way, and is Off after
Off == 0 - 1

\* what the chain saw of the running call of waitForSequenceStable, kept
\* until FinalCheck has used the value returned: last is the value of its
\* latest read, reads the number of consecutive reads up to the latest that
\* gave that value, and stab how the call is going: "changing" while no read
\* has repeated the value of the read before it, "settling" afterwards; and
\* how it returned: "stable", "timeout" (after settling) or "unstable"
\* (timeout while changing)
StabGone(o, r) == [o EXCEPT ![r].stab = "none", ![r].reads = 0, ![r].last = 0]

NotSeqConflict(r) == obs' = [StabGone(obs, r) EXCEPT ![r].conflicts = Off]

ReadsAfter(r) ==
  IF obs[r].reads > 0 /\ seq = obs[r].last THEN obs[r].reads + 1 ELSE 1

HowAfter(r) == IF ReadsAfter(r) >= 2 THEN "settling" ELSE obs[r].stab

\* a read of the sequence by waitForSequenceStable
StabObs(r, how) ==
  obs' = [obs EXCEPT ![r].stab = how, ![r].reads = ReadsAfter(r), ![r].last = seq]

\* as Connect, with connectWithSigner inside the try of the attempt
ConnectInsideTry(r, ok) ==
  /\ hs[r].pc = "connect"
  /\ IF ok
       THEN /\ hs' = [hs EXCEPT ![r].pc = "stab_poll"]
            /\ ds' = [ds EXCEPT ![r].lastSequence = 0, ![r].stableCount = 0,
                                ![r].elapsed = 0]
            /\ obs' = [obs EXCEPT ![r].connects = @ + 1, ![r].timedOut = FALSE,
                                  ![r].stab = "changing"]
       ELSE /\ Caught(r, TransportMsg)
            /\ obs' = [obs EXCEPT ![r].connects = @ + 1, ![r].conflicts = Off]
  /\ UNCHANGED <<form, seq, cfg, prior, audit, resp, calls>>

\* connectWithSigner, outside the try: its error leaves sendTokens at once;
\* on success waitForSequenceStable(freshClient, sender, 0, 10000) starts
Connect(r, ok) ==
  /\ hs[r].pc = "connect"
  /\ IF ok
       THEN /\ hs' = [hs EXCEPT ![r].pc = "stab_poll"]
            /\ ds' = [ds EXCEPT ![r].lastSequence = 0, ![r].stableCount = 0,
                                ![r].elapsed = 0]
            /\ obs' = [obs EXCEPT ![r].connects = @ + 1, ![r].timedOut = FALSE,
                                  ![r].stab = "changing"]
       ELSE /\ ToCatch(r, TransportMsg)
            /\ obs' = [obs EXCEPT ![r].connects = @ + 1, ![r].conflicts = Off]
            /\ UNCHANGED ds
  /\ UNCHANGED <<form, seq, cfg, prior, audit, resp, calls>>

\* as StableReturns, with the expected sequence handed back
StableReturnsExpected(r, v, d, how) ==
  /\ hs' = [hs EXCEPT ![r].pc = "final_check"]
  /\ ds' = [d EXCEPT ![r].stableSequence = 0, ![r].lastSequence = 0,
                      ![r].stableCount = 0, ![r].elapsed = 0]
  /\ StabObs(r, how)

\* waitForSequenceStable returns v: the settle delay and FinalCheck follow
StableReturns(r, v, d, how) ==
  /\ hs' = [hs EXCEPT ![r].pc = "final_check"]
  /\ ds' = [d EXCEPT ![r].stableSequence = v, ![r].lastSequence = 0,
                      ![r].stableCount = 0, ![r].elapsed = 0]
  /\ StabObs(r, how)

TimeoutMsg == <<"Timed", "out", "waiting", "for", "sequence", "update">>

\* as StableLoop, with the timeout raised as an error
StableLoopThrows(r, d, late) ==
  IF TimeLeft(d[r].elapsed, StableMaxWaitMs, late)
    THEN hs' = [hs EXCEPT ![r].pc = "stab_poll"] /\ ds' = d /\ StabObs(r, HowAfter(r))
    ELSE Caught(r, TimeoutMsg) /\ NotSeqConflict(r)

\* the while test of waitForSequenceStable, with locals d; after the loop
\* lastSequence is returned
StableLoop(r, d, late) ==
  IF TimeLeft(d[r].elapsed, StableMaxWaitMs, late)
    THEN hs' = [hs EXCEPT ![r].pc = "stab_poll"] /\ ds' = d /\ StabObs(r, HowAfter(r))
    ELSE StableReturns(r, d[r].lastSequence, d,
                       IF HowAfter(r) = "changing" THEN "unstable" ELSE "timeout")

\* as StableEnough, with the threshold of an earlier version of the code
StableEnoughThree(stableCount) == stableCount >= 3

\* stableCount >= requiredStableChecks
StableEnough(stableCount) == stableCount >= requiredStableChecks

\* one pass of the loop of waitForSequenceStable
StabPoll(r, ok, late) ==
  /\ hs[r].pc = "stab_poll"
  /\ IF ~ok THEN Caught(r, TransportMsg) /\ NotSeqConflict(r)
     ELSE IF seq = ds[r].lastSequence
       THEN IF StableEnough(ds[r].stableCount + 1)
              THEN /\ hs' = [hs EXCEPT ![r].pc = "stab_final"]
                   /\ ds' = [ds EXCEPT ![r].stableCount = @ + 1,
                                       ![r].elapsed = @ + SettleMs]
                   /\ StabObs(r, HowAfter(r))
              ELSE StableLoop(r, [ds EXCEPT ![r].stableCount = @ + 1,
                                            ![r].elapsed = @ + StablePollMs], late)
       ELSE StableLoop(r, [ds EXCEPT ![r].lastSequence = seq,
                                     ![r].stableCount = 1,
                                     ![r].elapsed = @ + StablePollMs], late)
  /\ UNCHANGED <<form, seq, cfg, prior, audit, resp, calls>>

\* as StabFinal, with lastSequence left as it was when the confirmation
\* read gives another value
StabFinalKeepsLast(r, ok, late) ==
  /\ hs[r].pc = "stab_final"
  /\ IF ~ok THEN Caught(r, TransportMsg) /\ NotSeqConflict(r)
     ELSE IF seq # ds[r].lastSequence
       THEN StableLoop(r, [ds EXCEPT ![r].stableCount = 1], late)
       ELSE StableReturns(r, seq, ds, "stable")
  /\ UNCHANGED <<form, seq, cfg, prior, audit, resp, calls>>

\* the confirmation read after requiredStableChecks equal observations
StabFinal(r, ok, late) ==
  /\ hs[r].pc = "stab_final"
  /\ IF ~ok THEN Caught(r, TransportMsg) /\ NotSeqConflict(r)
     ELSE IF seq # ds[r].lastSequence
       THEN StableLoop(r, [ds EXCEPT ![r].lastSequence = seq,
                                     ![r].stableCount = 1], late)
       ELSE StableReturns(r, seq, ds, "stable")
  /\ UNCHANGED <<form, seq, cfg, prior, audit, resp, calls>>

\* as FinalCheck, with the value read not compared with stableSequence
FinalCheckUncompared(r, ok) ==
  /\ hs[r].pc = "final_check"
  /\ IF ~ok THEN Caught(r, TransportMsg) /\ NotSeqConflict(r)
     ELSE /\ hs' = [hs EXCEPT ![r].pc = "broadcast"]
          /\ ds' = [ds EXCEPT ![r].finalSequence = seq]
          /\ obs' = StabGone(obs, r)
  /\ UNCHANGED <<form, seq, cfg, prior, audit, resp, calls>>

\* as FinalCheck, with the sequence taken by the first call that passes: a
\* call that reads a sequence another call is about to sign with fails
FinalCheckExclusive(r, ok) ==
  /\ hs[r].pc = "final_check"
  /\ IF ~ok THEN Caught(r, TransportMsg) /\ NotSeqConflict(r)
     ELSE IF \/ seq # ds[r].stableSequence
             \/ \E q \in DOMAIN hs \ {r} :
                   hs[q].pc = "broadcast" /\ ds[q].finalSequence = seq
       THEN Caught(r, FinalCheckMsg) /\ NotSeqConflict(r)
       ELSE /\ hs' = [hs EXCEPT ![r].pc = "broadcast"]
            /\ ds' = [ds EXCEPT ![r].finalSequence = seq]
            /\ obs' = StabGone(obs, r)
  /\ UNCHANGED <<form, seq, cfg, prior, audit, resp, calls>>

\* the read right before signing
FinalCheck(r, ok) ==
  /\ hs[r].pc = "final_check"
  /\ IF ~ok THEN Caught(r, TransportMsg) /\ NotSeqConflict(r)
     ELSE IF seq # ds[r].stableSequence
       THEN Caught(r, FinalCheckMsg) /\ NotSeqConflict(r)
       ELSE /\ hs' = [hs EXCEPT ![r].pc = "broadcast"]
            /\ ds' = [ds EXCEPT ![r].finalSequence = seq]
            /\ obs' = StabGone(obs, r)
  /\ UNCHANGED <<form, seq, cfg, prior, audit, resp, calls>>

BroadcastOutcomes == {"ok", "sequence", "transport"}

\* signAndBroadcast; on success waitForSequenceUpdate(.., finalSequence, 15000) starts
Broadcast(r, outcome) ==
  /\ hs[r].pc = "broadcast"
  /\ IF outcome = "ok"
       THEN /\ hs' = [hs EXCEPT ![r].pc = "confirm_poll"]
            /\ ds' = [ds EXCEPT ![r].result = Hash(r, Attempt(r)), ![r].elapsed = 0]
            /\ obs' = [obs EXCEPT ![r].delivered = @ + 1,
                                  ![r].firstOk = IF @ = 0 THEN Attempt(r) ELSE @,
                                  ![r].conflicts = Off]
       ELSE /\ Caught(r, IF outcome = "sequence" THEN SeqMismatchMsg ELSE TransportMsg)
            /\ obs' = [obs EXCEPT ![r].conflicts =
                                    IF @ # Off /\ outcome = "sequence" THEN @ + 1 ELSE Off]
  /\ UNCHANGED <<form, seq, cfg, prior, audit, resp, calls>>

\* one pass of the loop of waitForSequenceUpdate
ConfirmPoll(r, ok, late) ==
  /\ hs[r].pc = "confirm_poll"
  /\ IF ~ok THEN Caught(r, TransportMsg)
     ELSE IF seq >= ds[r].finalSequence + 1
       THEN /\ hs' = [hs EXCEPT ![r].pc = "chain_id"]
            /\ ds' = [ds EXCEPT ![r].elapsed = 0]
       ELSE /\ ds' = [ds EXCEPT ![r].elapsed = @ + UpdatePollMs]
            /\ hs' = [hs EXCEPT ![r].pc =
                        IF TimeLeft(ds[r].elapsed + UpdatePollMs, UpdateMaxWaitMs, late)
                          THEN "confirm_poll" ELSE "confirm_final"]
  /\ UNCHANGED <<form, seq, cfg, prior, audit, resp, calls, obs>>

\* as ConfirmFinal, with the timeout raised as an error
ConfirmFinalThrows(r, ok) ==
  /\ hs[r].pc = "confirm_final"
  /\ Caught(r, TimeoutMsg)
  /\ UNCHANGED <<form, seq, cfg, prior, audit, resp, calls, obs>>

\* the poll timed out: one last read, whose value is returned
ConfirmFinal(r, ok) ==
  /\ hs[r].pc = "confirm_final"
  /\ IF ~ok THEN Caught(r, TransportMsg) /\ UNCHANGED obs
     ELSE /\ hs' = [hs EXCEPT ![r].pc = "chain_id"]
          /\ obs' = [obs EXCEPT ![r].timedOut = TRUE]
          /\ ds' = [ds EXCEPT ![r].elapsed = 0]
  /\ UNCHANGED <<form, seq, cfg, prior, audit, resp, calls>>

GetChainId(r, ok) ==
  /\ hs[r].pc = "chain_id"
  /\ IF ~ok THEN Caught(r, TransportMsg)
     ELSE hs' = [hs EXCEPT ![r].pc = "sender_balance"] /\ UNCHANGED ds
  /\ UNCHANGED <<form, seq, cfg, prior, audit, resp, calls, obs>>

GetSenderBalance(r, ok) ==
  /\ hs[r].pc = "sender_balance"
  /\ IF ~ok THEN Caught(r, TransportMsg)
     ELSE hs' = [hs EXCEPT ![r].pc = "receiver_balance"] /\ UNCHANGED ds
  /\ UNCHANGED <<form, seq, cfg, prior, audit, resp, calls, obs>>

\* as GetReceiverBalance, with the hash of the result not handed to tx_hash
GetReceiverBalanceNoHash(r, ok) ==
  /\ hs[r].pc = "receiver_balance"
  /\ IF ~ok THEN Caught(r, TransportMsg)
     ELSE /\ hs' = [hs EXCEPT ![r].pc = "log_success", ![r].tx_success = TRUE,
                              ![r].tx_hash = NoHash]
          /\ UNCHANGED ds
  /\ UNCHANGED <<form, seq, cfg, prior, audit, resp, calls, obs>>

\* the last read; processedResult is returned to the handler, which sets
\* tx_success and tx_hash from it
GetReceiverBalance(r, ok) ==
  /\ hs[r].pc = "receiver_balance"
  /\ IF ~ok THEN Caught(r, TransportMsg)
     ELSE /\ hs' = [hs EXCEPT ![r].pc = "log_success", ![r].tx_success = TRUE,
                              ![r].tx_hash = ds[r].result]
          /\ UNCHANGED ds
  /\ UNCHANGED <<form, seq, cfg, prior, audit, resp, calls, obs>>

\* as BackoffMs, with the two delays exchanged
BackoffMsSwapped(errorMessage) ==
  IF isSequenceError(errorMessage) THEN OtherBackoffMs ELSE SeqBackoffMs

BackoffMs(errorMessage) ==
  IF isSequenceError(errorMessage) THEN SeqBackoffMs ELSE OtherBackoffMs

\* as RetriesAfterFailure, with a failure counted twice
RetriesAfterFailureTwice(retries) == retries - 2

\* retries -= 1
RetriesAfterFailure(retries) == retries - 1

\* as TxErrorAfter, with the first error of the call kept
TxErrorKeepsFirst(txError, caught) == IF txError = NoMsg THEN caught ELSE txError

\* txError = error
TxErrorAfter(txError, caught) == caught

\* as LoopContinues, leaving the loop one attempt early
LoopContinuesEarlyExit(retries) == retries > 1

\* while (retries > 0)
LoopContinues(retries) == retries > 0

\* the catch of the loop body: classify, wait, count the attempt; then the
\* while test, and after the loop the throw of the terminal failure
Backoff(r) ==
  /\ hs[r].pc = "backoff"
  /\ LET left == RetriesAfterFailure(ds[r].retries)
         last == TxErrorAfter(ds[r].txError, ds[r].caught)
     IN /\ ds' = [ds EXCEPT ![r].txError = last, ![r].retries = left]
        /\ hs' = IF LoopContinues(left) THEN [hs EXCEPT ![r].pc = "connect"]
                 ELSE IF left = 0
                   THEN [hs EXCEPT ![r].pc = "catch",
                                   ![r].error = RetriesPrefix \o last]
                   ELSE [hs EXCEPT ![r].pc = "log_success", ![r].tx_success = FALSE,
                                   ![r].tx_hash = NoHash]
  /\ obs' = [obs EXCEPT ![r].backoff = BackoffMs(ds[r].caught)]
  /\ UNCHANGED <<form, seq, cfg, prior, audit, resp, calls>>

(* -------------------------------------------------------------- the chain *)
InDispatch(r) ==
  hs[r].pc \in {"connect", "stab_poll", "stab_final", "final_check", "broadcast",
                "confirm_poll", "confirm_final", "chain_id", "sender_balance",
                "receiver_balance", "backoff"}

\* a transaction of the funding account is included in a block
ChainAdvanceUpTo(max) ==
  /\ seq < max
  /\ \E r \in Reqs : InDispatch(r)
  /\ seq' = seq + 1
  /\ UNCHANGED <<form, cfg, prior, audit, hs, ds, resp, calls, obs>>

ChainAdvance == ChainAdvanceUpTo(MaxSeq)

Next ==
  \/ \E r \in Reqs, ip \in IPs \cup {NoIp}, receiver \in Receivers, bodyOk \in BOOLEAN :
        Receive(r, ip, receiver, bodyOk)
  \/ \E r \in Reqs, fetched \in BOOLEAN : HandlerConfig(r, fetched)
  \/ \E r \in Reqs, ok \in BOOLEAN : CountIp(r, ok)
  \/ \E r \in Reqs, ok \in BOOLEAN : CountAddress(r, ok)
  \/ \E r \in Reqs, outcome \in AuditOutcomes : InsertDenied(r, outcome)
  \/ \E r \in Reqs, outcome \in AuditOutcomes : InsertInvalid(r, outcome)
  \/ \E r \in Reqs, region \in Regions : FetchRegion(r, region)
  \/ \E r \in Reqs, fetched \in BOOLEAN : SendTokensConfig(r, fetched)
  \/ \E r \in Reqs, ok \in BOOLEAN : Connect(r, ok)
  \/ \E r \in Reqs, ok \in BOOLEAN, late \in BOOLEAN : StabPoll(r, ok, late)
  \/ \E r \in Reqs, ok \in BOOLEAN, late \in BOOLEAN : StabFinal(r, ok, late)
  \/ \E r \in Reqs, ok \in BOOLEAN : FinalCheck(r, ok)
  \/ \E r \in Reqs, outcome \in BroadcastOutcomes : Broadcast(r, outcome)
  \/ \E r \in Reqs, ok \in BOOLEAN, late \in BOOLEAN : ConfirmPoll(r, ok, late)
  \/ \E r \in Reqs, ok \in BOOLEAN : ConfirmFinal(r, ok)
  \/ \E r \in Reqs, ok \in BOOLEAN : GetChainId(r, ok)
  \/ \E r \in Reqs, ok \in BOOLEAN : GetSenderBalance(r, ok)
  \/ \E r \in Reqs, ok \in BOOLEAN : GetReceiverBalance(r, ok)
  \/ \E r \in Reqs : Backoff(r)
  \/ \E r \in Reqs, outcome \in AuditOutcomes : InsertSuccess(r, outcome)
  \/ \E r \in Reqs, outcome \in AuditOutcomes : CatchHandler(r, outcome)
  \/ ChainAdvance

Spec == Init /\ [][Next]_vars

(* ------------------------------------------------------------- fairness *)
\* the steps of request r once it has arrived: each is the return or the
\* failure of the call that r awaits
RequestStep(r) ==
  \/ \E fetched \in BOOLEAN : HandlerConfig(r, fetched)
  \/ \E ok \in BOOLEAN : CountIp(r, ok)
  \/ \E ok \in BOOLEAN : CountAddress(r, ok)
  \/ \E outcome \in AuditOutcomes : InsertDenied(r, outcome)
  \/ \E outcome \in AuditOutcomes : InsertInvalid(r, outcome)
  \/ \E region \in Regions : FetchRegion(r, region)
  \/ \E fetched \in BOOLEAN : SendTokensConfig(r, fetched)
  \/ \E ok \in BOOLEAN : Connect(r, ok)
  \/ \E ok \in BOOLEAN, late \in BOOLEAN : StabPoll(r, ok, late)
  \/ \E ok \in BOOLEAN, late \in BOOLEAN : StabFinal(r, ok, late)
  \/ \E ok \in BOOLEAN : FinalCheck(r, ok)
  \/ \E outcome \in BroadcastOutcomes : Broadcast(r, outcome)
  \/ \E ok \in BOOLEAN, late \in BOOLEAN : ConfirmPoll(r, ok, late)
  \/ \E ok \in BOOLEAN : ConfirmFinal(r, ok)
  \/ \E ok \in BOOLEAN : GetChainId(r, ok)
  \/ \E ok \in BOOLEAN : GetSenderBalance(r, ok)
  \/ \E ok \in BOOLEAN : GetReceiverBalance(r, ok)
  \/ Backoff(r)
  \/ \E outcome \in AuditOutcomes : InsertSuccess(r, outcome)
  \/ \E outcome \in AuditOutcomes : CatchHandler(r, outcome)

\* the store holds up to MaxPrior successes of the IP and none of the
\* address; the configured limit is 1
InitFair ==
  /\ Init
  /\ cfg.requests_limit_per_day = 1
  /\ \A k \in Receivers : prior.address[k] = 0

\* every awaited call eventually returns or fails, every timer fires
SpecFair ==
  InitFair /\ [][Next]_vars /\ \A r \in Reqs : WF_vars(RequestStep(r))

(* --------------------------------------------------- two requests at once *)
\* two invocations of the handler, each with its own locals; they share the
\* audit store, the config and the chain
Reqs2 == {"r1", "r2"}

InitTwo ==
  /\ seq = 0
  /\ cfg \in [requests_limit_per_day : {1}, valid : BOOLEAN]
  /\ prior = [ip |-> [k \in IPs |-> 0], address |-> [k \in Receivers |-> 0]]
  /\ audit = <<>>
  /\ hs = [r \in Reqs2 |-> HsInit]
  /\ ds = [r \in Reqs2 |-> DsInit]
  /\ resp = [r \in Reqs2 |-> NoResponse]
  /\ calls = [r \in Reqs2 |-> <<>>]
  /\ obs = [r \in Reqs2 |-> ObsInit]
  /\ form = FormInit

\* the transfer that r broadcast with sequence s is in the chain's mempool
\* or in a block
Sent(r, s) == obs[r].delivered >= 1 /\ ds[r].finalSequence = s

\* the chain takes a transaction signed with the account's next sequence
\* and rejects any other with "account sequence mismatch"
ChainAccepts(r) ==
  /\ ds[r].finalSequence = seq
  /\ \A q \in Reqs2 \ {r} : ~Sent(q, seq)

BroadcastOnChain(r) ==
  Broadcast(r, IF ChainAccepts(r) THEN "ok" ELSE "sequence")

\* the transfer sent with the current sequence is included in a block
ChainIncludes ==
  /\ \E r \in Reqs2 : Sent(r, seq)
  /\ seq' = seq + 1
  /\ UNCHANGED <<form, cfg, prior, audit, hs, ds, resp, calls, obs>>

\* 24 hours go by: the rows stored so far leave the window of the counts
DayPasses ==
  /\ \E i \in 1..Len(audit) : audit[i].recent
  /\ \A r \in Reqs2 : hs[r].pc \in {"idle", "done"}
  /\ audit' = [i \in 1..Len(audit) |-> [audit[i] EXCEPT !.recent = FALSE]]
  /\ UNCHANGED <<form, seq, cfg, prior, hs, ds, resp, calls, obs>>

\* the two requests come from one IP; the store, the config table and the
\* reads of the chain answer; the config fetch of sendTokens and the opening
\* of the connection may fail
NextTwo ==
  \/ \E r \in Reqs2, receiver \in {GoodAddr, BadAddr} : Receive(r, "ip1", receiver, TRUE)
  \/ \E r \in Reqs2 : HandlerConfig(r, TRUE)
  \/ \E r \in Reqs2 : CountIp(r, TRUE)
  \/ \E r \in Reqs2 : CountAddress(r, TRUE)
  \/ \E r \in Reqs2 : InsertDenied(r, "ok")
  \/ \E r \in Reqs2 : InsertInvalid(r, "ok")
  \/ \E r \in Reqs2 : FetchRegion(r, Null)
  \/ \E r \in Reqs2, fetched \in BOOLEAN : SendTokensConfig(r, fetched)
  \/ \E r \in Reqs2, ok \in BOOLEAN : Connect(r, ok)
  \/ \E r \in Reqs2 : StabPoll(r, TRUE, FALSE)
  \/ \E r \in Reqs2 : StabFinal(r, TRUE, FALSE)
  \/ \E r \in Reqs2 : FinalCheck(r, TRUE)
  \/ \E r \in Reqs2 : BroadcastOnChain(r)
  \/ \E r \in Reqs2 : ConfirmPoll(r, TRUE, FALSE)
  \/ \E r \in Reqs2 : ConfirmFinal(r, TRUE)
  \/ \E r \in Reqs2 : GetChainId(r, TRUE)
  \/ \E r \in Reqs2 : GetSenderBalance(r, TRUE)
  \/ \E r \in Reqs2 : GetReceiverBalance(r, TRUE)
  \/ \E r \in Reqs2 : Backoff(r)
  \/ \E r \in Reqs2 : InsertSuccess(r, "ok")
  \/ \E r \in Reqs2 : CatchHandler(r, "ok")
  \/ ChainIncludes
  \/ DayPasses

SpecTwo == InitTwo /\ [][NextTwo]_vars

(* ------------------------------------- waitForSequenceStable on its own *)
\* the request as it enters the retry loop: config read, quota passed
InitStab ==
  /\ seq = 0
  /\ cfg = [requests_limit_per_day |-> 1, valid |-> TRUE]
  /\ prior = [ip |-> [k \in IPs |-> 0], address |-> [k \in Receivers |-> 0]]
  /\ audit = <<>>
  /\ hs = [r \in Reqs |-> [HsInit EXCEPT !.pc = "connect", !.ip = "ip1",
                                         !.receiver_address = GoodAddr,
                                         !.limit = 1, !.decision = "allow"]]
  /\ ds = [r \in Reqs |-> [DsInit EXCEPT !.retries = InitialRetries]]
  /\ resp = [r \in Reqs |-> NoResponse]
  /\ calls = [r \in Reqs |-> <<>>]
  /\ obs = [r \in Reqs |-> ObsInit]
  /\ form = FormInit

\* one call of waitForSequenceStable, while other requests move the sequence
NextStab ==
  \/ \E r \in Reqs, ok \in BOOLEAN : Connect(r, ok)
  \/ \E r \in Reqs, ok \in BOOLEAN, late \in BOOLEAN : StabPoll(r, ok, late)
  \/ \E r \in Reqs, ok \in BOOLEAN, late \in BOOLEAN : StabFinal(r, ok, late)
  \/ ChainAdvanceUpTo(MaxStabSeq)

SpecStab == InitStab /\ [][NextStab]_vars


(* ------------------------------------------------------------ properties *)
Done(r) == hs[r].pc = "done"

\* the receiver is empty or does not begin with the configured prefix
LacksPrefix(address) == address = EmptyAddr \/ ~StartsWith(address, PREFIX)

FailedRecord(rec) == rec.success = FALSE /\ rec.transaction_hash = NoHash

\* no connection was opened for r and sendTokens is not entered
NoChain(r) ==
  /\ ~InDispatch(r)
  /\ hs[r].pc \notin {"region", "st_config", "log_success"}
  /\ obs[r].connects = 0
  /\ obs[r].delivered = 0

\* C1: within one sendTokens call at most one broadcast succeeds, whatever
\* the reads that follow the broadcast do
C1_AtMostOneBroadcastSucceeds ==
  \A r \in Reqs : obs[r].delivered <= 1

\* C2: on every exit path of the handler exactly one insertUserRequest call
\* has been made for the request when its response is returned
C2_ExactlyOneAuditRecord ==
  \A r \in Reqs : Done(r) => Len(calls[r]) = 1

\* C3: a failed audit append does not change the outcome: a dispatch that
\* returned success is answered 200 with its hash, a quota denial 429, an
\* invalid prefix 400
C3_AuditFailureKeepsOutcome ==
  \A r \in Reqs :
    Done(r) =>
      /\ hs[r].tx_success =>
           resp[r].status = 200 /\ resp[r].transactionHash = hs[r].tx_hash
      /\ hs[r].decision \in {"both", "ip", "address"} => resp[r].status = 429
      /\ (hs[r].decision = "allow" /\ LacksPrefix(hs[r].receiver_address))
           => resp[r].status = 400

\* C4: the decision is both / ip / address / allow exactly in the four cases
\* of the decision table; a count equal to the limit is denied
C4_QuotaDecisionTable ==
  \A r \in Reqs :
    hs[r].decision # Null =>
      LET ipOver == hs[r].ipRequestCount >= hs[r].limit
          addrOver == hs[r].addressRequestCount >= hs[r].limit
      IN /\ hs[r].decision = "both" <=> (ipOver /\ addrOver)
         /\ hs[r].decision = "ip" <=> (ipOver /\ ~addrOver)
         /\ hs[r].decision = "address" <=> (~ipOver /\ addrOver)
         /\ hs[r].decision = "allow" <=> (~ipOver /\ ~addrOver)
         /\ (hs[r].ipRequestCount = hs[r].limit
               \/ hs[r].addressRequestCount = hs[r].limit) => hs[r].decision # "allow"

\* C4 witness: the IP count is exactly at the limit and the request is denied
C4_Witness ==
  \E r \in Reqs :
    /\ hs[r].decision = "ip"
    /\ hs[r].ipRequestCount = hs[r].limit
    /\ hs[r].addressRequestCount < hs[r].limit

\* C5: a request with both counts at or above the limit is answered 429
\* "both", with exactly one audit call, of a failed record without hash
C5_BothDenied ==
  \A r \in Reqs :
    (Done(r) /\ hs[r].decision = "both") =>
      /\ resp[r].status = 429
      /\ resp[r].rateLimitType = "both"
      /\ Len(calls[r]) = 1
      /\ FailedRecord(calls[r][1].rec)

\* C6 as claimed: a receiver without the prefix is answered 400 whatever the
\* counts read for it are
C6_BadPrefixAlways400 ==
  \A r \in Reqs :
    (Done(r) /\ hs[r].decision # Null /\ hs[r].receiver_address = BadAddr)
      => resp[r].status = 400

\* C6 as amended: a receiver without the prefix is answered 400 when both
\* counts read are below the limit and 429 with the kind of the denial when
\* one is not; in either branch 500 when the audit append throws
C6_BadPrefixAfterQuota ==
  \A r \in Reqs :
    (Done(r) /\ hs[r].decision # Null
       /\ LacksPrefix(hs[r].receiver_address)) =>
      /\ Len(calls[r]) >= 1
      /\ IF calls[r][1].outcome = "throw" THEN resp[r].status = 500
         ELSE IF hs[r].decision = "allow" THEN resp[r].status = 400
         ELSE resp[r].status = 429 /\ resp[r].rateLimitType = hs[r].decision

\* C6 witness: a receiver without the prefix, under quota, answered 400
C6_Witness ==
  \E r \in Reqs :
    /\ Done(r)
    /\ hs[r].receiver_address = BadAddr
    /\ hs[r].decision = "allow"
    /\ resp[r].status = 400

\* C7: for a receiver that is empty or lacks the prefix no connection is
\* opened and sendTokens is never entered; when the prefix test rejects it,
\* the first audit call is of a failed record and the answer is not 200
C7_NoChainWithoutValidPrefix ==
  \A r \in Reqs :
    LacksPrefix(hs[r].receiver_address) =>
      /\ NoChain(r)
      /\ (Done(r) /\ hs[r].decision = "allow") =>
           /\ Len(calls[r]) >= 1
           /\ FailedRecord(calls[r][1].rec)
           /\ \A i \in 1..Len(calls[r]) : FailedRecord(calls[r][i].rec)
           /\ resp[r].status \in {400, 500}

\* C7 witness: the prefix test rejected a request and it ended
C7_Witness ==
  \E r \in Reqs :
    /\ Done(r)
    /\ hs[r].receiver_address \in {BadAddr, EmptyAddr}
    /\ hs[r].decision = "allow"
    /\ Len(calls[r]) = 1
    /\ calls[r][1].outcome = "ok"
    /\ resp[r].status = 400

\* sendTokens was in its loop and has left it
LoopLeft(r) == obs[r].connects >= 1 /\ ~InDispatch(r)

\* C8: when every attempt ends in a broadcast that raises a sequence
\* conflict, there are exactly 5 attempts and 5 broadcasts, never a 6th, and
\* the call ends in a failure whose message holds that error
C8_RetryBound ==
  \A r \in Reqs :
    obs[r].conflicts # Off =>
      /\ obs[r].conflicts <= 5
      /\ obs[r].connects <= 5
      /\ LoopLeft(r) =>
           /\ obs[r].conflicts = 5
           /\ obs[r].connects = 5
           /\ hs[r].pc \in {"catch", "done"}
           /\ Includes(hs[r].error, SeqMismatchMsg)
           /\ Done(r) => /\ resp[r].status = 500
                         /\ Includes(resp[r].error, SeqMismatchMsg)

\* C8 witness: five sequence conflicts, then the 500
C8_Witness ==
  \E r \in Reqs :
    Done(r) /\ obs[r].conflicts = 5 /\ resp[r].status = 500

\* C9: when the first successful broadcast is that of attempt k, the answer
\* is 200 with the hash of attempt k and there is one audit call
C9_SuccessOnKthAttempt ==
  \A r \in Reqs :
    (Done(r) /\ obs[r].firstOk # 0) =>
      /\ resp[r].status = 200
      /\ resp[r].transactionHash = Hash(r, obs[r].firstOk)
      /\ Len(calls[r]) = 1

\* a step of r out of position p
Leaves(r, p) == hs[r].pc = p /\ hs'[r].pc # p

\* C10: after a successful broadcast the timeout of the confirmation poll
\* leads to the last read and on to the reads of the result, with the retry
\* counter and the broadcast's hash untouched; only an RPC error of a read
\* is caught. A call that returns after a timeout returns success with the
\* hash of the attempt that timed out.
C10_TimeoutStep ==
  \A r \in Reqs :
    /\ (Leaves(r, "confirm_poll") /\ hs'[r].pc = "confirm_final") =>
         /\ ds'[r].retries = ds[r].retries
         /\ ds'[r].result = ds[r].result
         /\ ds[r].result = Hash(r, Attempt(r))
    /\ Leaves(r, "confirm_final") =>
         \/ /\ hs'[r].pc = "chain_id"
            /\ ds'[r].retries = ds[r].retries
            /\ ds'[r].result = ds[r].result
            /\ obs'[r].timedOut
         \/ /\ hs'[r].pc = "backoff"
            /\ ds'[r].caught = TransportMsg

C10_TimeoutReturn ==
  \A r \in Reqs :
    /\ (hs[r].pc = "log_success" /\ obs[r].timedOut) =>
         /\ hs[r].tx_success
         /\ hs[r].tx_hash = Hash(r, Attempt(r))
    /\ (Done(r) /\ obs[r].timedOut /\ resp[r].status = 200) =>
         /\ resp[r].success
         /\ resp[r].transactionHash = Hash(r, Attempt(r))

C10_TimeoutKeepsSuccess == []C10_TimeoutReturn /\ [][C10_TimeoutStep]_vars

\* C10 witness: the poll timed out and the request was answered 200
C10_Witness ==
  \E r \in Reqs :
    Done(r) /\ obs[r].timedOut /\ resp[r].status = 200 /\ ds[r].result # NoHash

\* C11: when the reads of one call of waitForSequenceStable have given the
\* same value v five times in a row, the loop stops polling and takes the
\* confirmation read; when that read gives v as well the call returns v. A
\* call that returns after five or more consecutive reads of v returns v.
C11_AfterFiveReads ==
  \A r \in Reqs :
    /\ hs[r].pc = "stab_poll" => obs[r].reads < 5
    /\ hs[r].pc = "stab_final" => obs[r].reads = 5 /\ obs[r].last = ds[r].lastSequence
    /\ (hs[r].pc = "final_check" /\ obs[r].reads >= 5) =>
         ds[r].stableSequence = obs[r].last
    /\ (hs[r].pc = "final_check" /\ obs[r].stab = "stable") =>
         obs[r].reads >= 6 /\ ds[r].stableSequence = obs[r].last

C11_ConfirmStep ==
  \A r \in Reqs :
    (Leaves(r, "stab_final") /\ seq = obs[r].last) =>
      \/ /\ hs'[r].pc = "final_check"
         /\ ds'[r].stableSequence = seq
         /\ obs'[r].stab = "stable"
      \/ /\ hs'[r].pc = "backoff"
         /\ ds'[r].caught = TransportMsg

C12_AfterTimeout ==
  \A r \in Reqs :
    obs[r].stab = "unstable" =>
      /\ hs[r].pc = "final_check"
      /\ obs[r].reads = 1
      /\ ds[r].stableSequence = obs[r].last

C12_PollStep ==
  \A r \in Reqs :
    (Leaves(r, "stab_poll") /\ obs[r].stab = "changing"
       /\ (obs[r].reads = 0 \/ seq # obs[r].last)) =>
      \/ /\ hs'[r].pc = "final_check"
         /\ obs'[r].stab = "unstable"
         /\ ds'[r].stableSequence = seq
      \/ /\ hs'[r].pc = "backoff"
         /\ ds'[r].caught = TransportMsg

C12_UnstableCase == []C12_AfterTimeout /\ [][C12_PollStep]_vars

\* C12 witness: three polls read 1, 2, 3, the time was up and 3 was returned
C12_Witness ==
  \E r \in Reqs :
    /\ hs[r].pc = "final_check"
    /\ obs[r].stab = "unstable"
    /\ obs[r].last = 3
    /\ ds[r].stableSequence = 3

\* the handler has returned a JSON response for r
Responded(r) == Done(r) /\ resp[r].status \in {200, 400, 429, 500}

\* C13: a request that has arrived is eventually answered, the answer has
\* status 200, 400, 429 or 500, it is given when the handler ends and is
\* never replaced by another
C13_AnsweredWhenEnded ==
  \A r \in Reqs : (resp[r].status # 0 <=> Done(r)) /\ (Done(r) => Responded(r))

C13_OneAnswer ==
  \A r \in Reqs : resp[r].status # 0 => resp'[r] = resp[r] /\ hs'[r].pc = "done"

C13_AlwaysAnswered ==
  /\ \A r \in Reqs : (hs[r].pc # "idle") ~> Responded(r)
  /\ []C13_AnsweredWhenEnded
  /\ [][C13_OneAnswer]_vars

\* C13 witness: a request answered after all five attempts of sendTokens
C13_Witness ==
  \E r \in Reqs : Responded(r) /\ obs[r].connects = 5 /\ resp[r].status = 500

\* sendTokens is running for r
InCall(r) == hs[r].pc = "st_config" \/ InDispatch(r)

\* C19: a call of sendTokens ends; it opens at most 5 connections, one per
\* attempt; it ends either by returning a result with success = true and a
\* hash or by throwing one error, never by returning success = false; it is
\* entered once per request
C19_AtMostFive == \A r \in Reqs : obs[r].connects <= 5 /\ Attempt(r) <= 6

C19_OneOutcomeStep ==
  \A r \in Reqs :
    /\ (InCall(r) /\ ~InCall(r)') =>
         \/ /\ hs'[r].pc = "log_success"
            /\ hs'[r].tx_success
            /\ hs'[r].tx_hash # NoHash
            /\ hs'[r].error = NoMsg
         \/ /\ hs'[r].pc = "catch"
            /\ hs'[r].error # NoMsg
            /\ ~hs'[r].tx_success
            /\ hs'[r].tx_hash = NoHash
    /\ (~InCall(r) /\ InCall(r)') => hs[r].pc = "region"

C19_DispatchTerminates ==
  /\ \A r \in Reqs : InCall(r) ~> ~InCall(r)
  /\ []C19_AtMostFive
  /\ [][C19_OneOutcomeStep]_vars

\* C19 witness: the fifth attempt succeeded and sendTokens returned
C19_Witness ==
  \E r \in Reqs :
    hs[r].pc = "log_success" /\ obs[r].connects = 5 /\ hs[r].tx_success

\* sendTokens threw after it had opened a connection
DispatchRaised(r) ==
  hs[r].pc \in {"catch", "done"} /\ obs[r].connects >= 1 /\ ~hs[r].tx_success

\* all five attempts of sendTokens failed
Exhausted(r) == DispatchRaised(r) /\ obs[r].connects = 5 /\ ds[r].retries = 0

\* the errors a position of the attempt can raise
Raises(p) ==
  IF p = "broadcast" THEN {SeqMismatchMsg, TransportMsg}
  ELSE IF p = "final_check" THEN {FinalCheckMsg, TransportMsg}
  ELSE {TransportMsg}

\* C16: when all five attempts have failed the error thrown is "Transaction
\* failed after multiple retries: " followed by the message of the error
\* caught in the fifth attempt; the request is answered 500 with that
\* message, after one audit call of a failed record without hash
C16_LastErrorState ==
  \A r \in Reqs :
    Exhausted(r) =>
      /\ hs[r].error = RetriesPrefix \o ds[r].caught
      /\ Includes(hs[r].error, ds[r].caught)
      /\ Done(r) => /\ resp[r].status = 500
                    /\ resp[r].error = hs[r].error
                    /\ ~resp[r].success
                    /\ Len(calls[r]) = 1
                    /\ FailedRecord(calls[r][1].rec)

C16_LastErrorStep ==
  \A r \in Reqs :
    /\ (hs[r].pc # "backoff" /\ hs'[r].pc = "backoff") =>
         ds'[r].caught \in Raises(hs[r].pc)
    /\ (Leaves(r, "backoff") /\ ds[r].retries = 1) =>
         /\ hs'[r].pc = "catch"
         /\ hs'[r].error = RetriesPrefix \o ds[r].caught
         /\ ds'[r].caught = ds[r].caught

C16_TerminalFailureCarriesLastError ==
  []C16_LastErrorState /\ [][C16_LastErrorStep]_vars

\* C16 witness: the fifth attempt ended in a sequence conflict, an earlier one
\* otherwise; the 500 carries the sequence conflict
C16_Witness ==
  \E r \in Reqs :
    /\ Done(r) /\ Exhausted(r)
    /\ obs[r].conflicts = Off
    /\ ds[r].caught = SeqMismatchMsg
    /\ resp[r].status = 500
    /\ Includes(resp[r].error, SeqMismatchMsg)

\* C17 as claimed: whenever sendTokens throws after it opened a connection,
\* all five attempts have been used
C17_EveryFailureRetried ==
  \A r \in Reqs : DispatchRaised(r) => Exhausted(r)

\* C17 as amended: an error caught in the try of an attempt that the
\* classifier does not take for a sequence conflict is followed by the short
\* backoff and by the next attempt while one is left; a failure of
\* connectWithSigner is not: it ends the call at once, with its own message
C17_RetriedState ==
  \A r \in Reqs :
    DispatchRaised(r) =>
      \/ Exhausted(r) /\ hs[r].error = RetriesPrefix \o ds[r].caught
      \/ hs[r].error = TransportMsg /\ ds[r].retries >= 1

C17_RetriedStep ==
  \A r \in Reqs :
    /\ (Leaves(r, "backoff") /\ ~isSequenceError(ds[r].caught)) =>
         /\ obs'[r].backoff = OtherBackoffMs
         /\ ds'[r].retries = ds[r].retries - 1
         /\ hs'[r].pc = IF ds[r].retries > 1 THEN "connect" ELSE "catch"
    /\ Leaves(r, "connect") =>
         \/ hs'[r].pc = "stab_poll"
         \/ /\ hs'[r].pc = "catch"
            /\ hs'[r].error = TransportMsg
            /\ ds'[r].retries = ds[r].retries

C17_FailuresInTryRetried == []C17_RetriedState /\ [][C17_RetriedStep]_vars

\* C17 witness: a read of the first attempt failed and was retried; the
\* connection of the second attempt failed and ended the request
C17_Witness ==
  \E r \in Reqs :
    /\ Done(r)
    /\ obs[r].connects = 2
    /\ ds[r].txError = TransportMsg
    /\ obs[r].backoff = OtherBackoffMs
    /\ resp[r].status = 500
    /\ resp[r].error = TransportMsg

\* C20: signAndBroadcast is reached only from the final check of the same
\* attempt, with the value read there equal to the value the stabilizer
\* returned; when the two differ nothing is broadcast, the error is caught
\* and the attempt is counted like any other failed one
C20_BroadcastState ==
  \A r \in Reqs :
    hs[r].pc = "broadcast" => ds[r].finalSequence = ds[r].stableSequence

C20_FinalCheckStep ==
  \A r \in Reqs :
    /\ (hs[r].pc # "broadcast" /\ hs'[r].pc = "broadcast") =>
         /\ hs[r].pc = "final_check"
         /\ seq = ds[r].stableSequence
         /\ ds'[r].retries = ds[r].retries
    /\ obs'[r].delivered # obs[r].delivered => hs[r].pc = "broadcast"
    /\ (Leaves(r, "final_check") /\ seq # ds[r].stableSequence) =>
         /\ hs'[r].pc = "backoff"
         /\ ds'[r].caught \in {FinalCheckMsg, TransportMsg}
         /\ obs'[r].delivered = obs[r].delivered
         /\ ds'[r].retries = ds[r].retries
    /\ (Leaves(r, "backoff") /\ ds[r].caught = FinalCheckMsg) =>
         /\ ds'[r].retries = ds[r].retries - 1
         /\ hs'[r].pc = IF ds[r].retries > 1 THEN "connect" ELSE "catch"

C20_BroadcastOnlyAfterFinalCheck ==
  []C20_BroadcastState /\ [][C20_FinalCheckStep]_vars

\* C20 witness: the sequence moved between the stabilizer's return and the
\* final check of the first attempt; nothing was broadcast, a second attempt
\* is due
C20_Witness ==
  \E r \in Reqs :
    /\ hs[r].pc = "connect"
    /\ ds[r].txError = FinalCheckMsg
    /\ ds[r].retries = 4
    /\ obs[r].delivered = 0

\* the rows of the store with success = true that are in the 24h window
SuccessRowsByIp(ip) ==
  {i \in 1..Len(audit) :
     audit[i].success = TRUE /\ audit[i].recent = TRUE /\ audit[i].ip_address = ip}

SuccessRowsByAddress(address) ==
  {i \in 1..Len(audit) :
     /\ audit[i].success = TRUE
     /\ audit[i].recent = TRUE
     /\ audit[i].receiver_address = address}

\* a step that appends a row with success = false to the store
AppendsFailedRow ==
  /\ Len(audit') = Len(audit) + 1
  /\ audit'[Len(audit')].success = FALSE

\* C14: a request that is denied for quota, has an invalid address or whose
\* dispatch failed appends a row with success = false and no hash; the
\* append of such a row leaves the count of every IP and of every address as
\* it was; a count is the number of rows with success = true, the key, and a
\* timestamp inside the last 24 hours, and that is what a request reads
C14_CountsState ==
  /\ \A ip \in IPs : CountByIp(ip) = prior.ip[ip] + Cardinality(SuccessRowsByIp(ip))
  /\ \A a \in Receivers :
       CountByAddress(a) = prior.address[a] + Cardinality(SuccessRowsByAddress(a))
  /\ \A r \in Reqs2 :
       (Done(r) /\ resp[r].status \in {400, 429, 500}) =>
         /\ Len(calls[r]) = 1
         /\ FailedRecord(calls[r][1].rec)
         /\ \E i \in 1..Len(audit) : audit[i].req = r /\ ~audit[i].success

C14_CountsStep ==
  /\ AppendsFailedRow =>
       /\ \A ip \in IPs : CountByIp(ip)' = CountByIp(ip)
       /\ \A a \in Receivers : CountByAddress(a)' = CountByAddress(a)
  /\ \A r \in Reqs2 :
       /\ Leaves(r, "count_ip") =>
            hs'[r].ipRequestCount = Cardinality(SuccessRowsByIp(hs[r].ip))
       /\ Leaves(r, "count_addr") =>
            hs'[r].addressRequestCount =
              Cardinality(SuccessRowsByAddress(hs[r].receiver_address))

C14_QuotaCountsOnlySuccesses == []C14_CountsState /\ [][C14_CountsStep]_vars

\* C14 witness: one request was served, the other then read the count 1 and
\* was denied; its failed row is stored and the count is still 1
C14_Witness ==
  /\ Len(audit) = 2
  /\ audit[1].success /\ audit[1].recent
  /\ ~audit[2].success /\ audit[2].recent
  /\ audit[2].ip_address = audit[1].ip_address
  /\ resp[audit[2].req].status = 429
  /\ hs[audit[2].req].ipRequestCount = 1
  /\ CountByIp("ip1") = 1

\* a request was admitted on the count it had read
Admitted(r) == hs[r].decision = "allow" /\ hs[r].pc \notin {"log_invalid"}

\* C15: the count a request reads is the store's count at the time of the
\* read and the request is admitted when that count is below the limit,
\* whatever is appended afterwards. Two requests of one IP can therefore both
\* read limit - 1, both be served, and leave limit + 1 successes in the
\* window; the limit is exceeded only like that
C15_ReadThenAppendState ==
  /\ \A r \in Reqs2 :
       hs[r].decision = "allow" =>
         hs[r].ipRequestCount < hs[r].limit /\ hs[r].addressRequestCount < hs[r].limit
  /\ \A ip \in IPs :
       /\ CountByIp(ip) <= 2
       /\ CountByIp(ip) > 1 =>
            \A r \in Reqs2 :
              /\ hs[r].ip = ip
              /\ Admitted(r)
              /\ hs[r].limit = 1
              /\ hs[r].ipRequestCount = hs[r].limit - 1
              /\ obs[r].delivered = 1

C15_ReadStep ==
  \A r \in Reqs2 :
    Leaves(r, "count_ip") =>
      hs'[r].ipRequestCount = Cardinality(SuccessRowsByIp(hs[r].ip))

C15_OverAdmissionRace == []C15_ReadThenAppendState /\ [][C15_ReadStep]_vars

\* C15 witness: both requests of the IP read 0 with the limit 1, both were
\* answered 200, and the window holds 2 successes of that IP
C15_Witness ==
  /\ \A r \in Reqs2 :
       /\ Done(r)
       /\ hs[r].ip = "ip1"
       /\ hs[r].limit = 1
       /\ hs[r].ipRequestCount = 0
       /\ resp[r].status = 200
       /\ resp[r].success
  /\ resp["r1"].transactionHash # resp["r2"].transactionHash
  /\ CountByIp("ip1") = 2

\* sendTokens threw a configuration error for r
ConfigError(r) ==
  hs[r].pc \in {"catch", "done"} /\ hs[r].error \in {ConfigFetchMsg, ConfigInvalidMsg}

\* C18: a configuration error ends sendTokens before its loop: no connection
\* is opened and nothing is broadcast, in that request or, for an invalid
\* config, in any; retries is never set; the request is answered 500 with
\* the error's message after one audit call of a failed record; the step
\* that raises the error touches nothing of the other request or of the
\* chain, the store and the config
C18_ConfigErrorState ==
  /\ ~cfg.valid => \A r \in Reqs2 : obs[r].connects = 0 /\ obs[r].delivered = 0
  /\ \A r \in Reqs2 :
       ConfigError(r) =>
         /\ obs[r].connects = 0
         /\ obs[r].delivered = 0
         /\ ds[r].retries = 0
         /\ ~hs[r].tx_success
         /\ Done(r) => /\ resp[r].status = 500
                       /\ resp[r].error = hs[r].error
                       /\ Len(calls[r]) = 1
                       /\ FailedRecord(calls[r][1].rec)

C18_ConfigErrorStep ==
  \A r \in Reqs2 :
    Leaves(r, "st_config") =>
      \/ /\ hs'[r].pc = "connect"
         /\ cfg.valid
      \/ /\ hs'[r].pc = "catch"
         /\ hs'[r].error \in {ConfigFetchMsg, ConfigInvalidMsg}
         /\ \A q \in Reqs2 \ {r} : hs'[q] = hs[q] /\ ds'[q] = ds[q] /\ resp'[q] = resp[q]
         /\ UNCHANGED <<form, seq, cfg, prior, audit, calls, obs>>

C21_ConfirmationState ==
  \A r \in Reqs :
    /\ hs[r].pc = "stab_final" =>
         /\ ds[r].stableCount = 5
         /\ obs[r].reads = 5
         /\ obs[r].last = ds[r].lastSequence
    /\ hs[r].pc = "stab_poll" => ds[r].stableCount = obs[r].reads
    /\ obs[r].stab = "stable" => hs[r].pc = "final_check" /\ obs[r].reads >= 6

C21_ConfirmationStep ==
  \A r \in Reqs :
    /\ (obs[r].stab # "stable" /\ obs'[r].stab = "stable") =>
         /\ hs[r].pc = "stab_final"
         /\ seq = ds[r].lastSequence
         /\ ds'[r].stableSequence = seq
    /\ (Leaves(r, "stab_final") /\ seq # ds[r].lastSequence) =>
         \/ /\ hs'[r].pc = "stab_poll"
            /\ ds'[r].lastSequence = seq
            /\ ds'[r].stableCount = 1
            /\ ds'[r].elapsed = ds[r].elapsed
            /\ obs'[r].reads = 1
         \/ /\ hs'[r].pc = "final_check"
            /\ obs'[r].stab = "timeout"
            /\ ds'[r].stableSequence = seq
         \/ /\ hs'[r].pc = "backoff"
            /\ ds'[r].caught = TransportMsg

C21_StablePathNeedsConfirmation ==
  []C21_ConfirmationState /\ [][C21_ConfirmationStep]_vars

\* C21 witness: five polls read 0, the confirmation read gave 1: the loop
\* polls again with lastSequence = 1 and stableCount = 1
C21_Witness ==
  \E r \in Reqs :
    /\ hs[r].pc = "stab_poll"
    /\ ds[r].elapsed = 4 * StablePollMs + SettleMs
    /\ ds[r].lastSequence = 1
    /\ ds[r].stableCount = 1
    /\ obs[r].reads = 1

(* ------------------------------------------------- the backoff (C22) *)
\* the message holds the word the classifier of line 321 looks for (its two
\* longer needles hold that word too)
NamesSequence(msg) == \E i \in 1..Len(msg) : msg[i] = "sequence"

\* C22: when the catch of the loop body has run, the wait was the 5000 ms
\* one exactly when the error message names a sequence conflict and the
\* 1000 ms one otherwise; the attempt counter went down by exactly one; and
\* an attempt that follows starts at connectWithSigner: every attempt of the
\* call has opened its own connection
C22_FreshConnectionState ==
  \A r \in Reqs :
    /\ hs[r].pc = "connect" => obs[r].connects = Attempt(r) - 1
    /\ (InDispatch(r) /\ hs[r].pc # "connect") => obs[r].connects = Attempt(r)

C22_BackoffStep ==
  \A r \in Reqs :
    Leaves(r, "backoff") =>
      /\ obs'[r].backoff = (IF NamesSequence(ds[r].caught)
                              THEN SeqBackoffMs ELSE OtherBackoffMs)
      /\ ds'[r].retries = ds[r].retries - 1
      /\ ds'[r].retries > 0 => hs'[r].pc = "connect"
      /\ hs'[r].pc \in {"connect", "catch"}

C22_BackoffByClassification ==
  []C22_FreshConnectionState /\ [][C22_BackoffStep]_vars

\* a sequence conflict was followed by the long wait and a transport error
\* by the short one is being handled: the third attempt is about to connect
C22_Witness ==
  \E r \in Reqs :
    /\ hs[r].pc = "connect"
    /\ ds[r].retries = 3
    /\ obs[r].connects = 2
    /\ ds[r].txError = SeqMismatchMsg
    /\ obs[r].backoff = SeqBackoffMs

(* ------------------------------------- the stabilizer is not a lock (C23) *)
\* C23: waitForSequenceStable and the read before signing take nothing that
\* another call could find taken. They read the chain and write the locals
\* of their own call only, and a call passes the read before signing exactly
\* when the value read is the one its own stabilizer returned, whatever the
\* other call holds. So two calls can stand before signAndBroadcast with the
\* same sequence, none of the two transfers sent yet
C23_OwnReadState ==
  \A r \in Reqs2 :
    hs[r].pc = "broadcast" =>
      /\ ds[r].finalSequence = ds[r].stableSequence
      /\ ds[r].finalSequence <= seq

C23_OwnReadStep ==
  \A r \in Reqs2 :
    /\ (Leaves(r, "stab_final") \/ Leaves(r, "final_check") \/
        (hs[r].pc = "stab_poll" /\ ds'[r] # ds[r])) =>
          /\ seq' = seq
          /\ audit' = audit
          /\ \A q \in Reqs2 \ {r} : hs'[q] = hs[q] /\ ds'[q] = ds[q] /\ obs'[q] = obs[q]
    /\ Leaves(r, "final_check") =>
          (hs'[r].pc = "broadcast" <=> seq = ds[r].stableSequence)

C23_StabilizerIsNotALock ==
  []C23_OwnReadState /\ [][C23_OwnReadStep]_vars

\* both calls passed the read before signing with the current sequence and
\* neither has sent its transfer
C23_Witness ==
  /\ \A r \in Reqs2 :
       /\ hs[r].pc = "broadcast"
       /\ ds[r].stableSequence = seq
       /\ ds[r].finalSequence = seq
       /\ obs[r].delivered = 0
       /\ obs[r].connects = 1

(* ------------------------------------------- the geolocation lookup (C24) *)
\* the locals of the handler, the position and the region left out
NoRegion(h) == [h EXCEPT !.pc = "", !.region = Null]

\* C24: whatever fetchRegion gives (a region, or null: nothing found, or the
\* lookup failed), the handler goes on to sendTokens with its other locals,
\* the store, the chain and the response untouched; region is written by
\* that step only, and read only to fill the region field of the audit
\* records the request appends afterwards, whose other fields do not come
\* from it
C24_RegionState ==
  \A r \in Reqs :
    /\ hs[r].pc \in {"idle", "config", "count_ip", "count_addr", "log_denied",
                     "log_invalid", "region"} => hs[r].region = Null
    /\ \A i \in 1..Len(calls[r]) :
         /\ calls[r][i].rec.region = hs[r].region
         /\ calls[r][i].rec.ip_address = hs[r].ip
         /\ calls[r][i].rec.receiver_address = hs[r].receiver_address
         /\ calls[r][i].rec.success = (calls[r][i].rec.transaction_hash # NoHash)
         /\ calls[r][i].rec.transaction_hash \in {NoHash, hs[r].tx_hash}

C24_RegionStep ==
  \A r \in Reqs :
    /\ hs[r].pc = "region" /\ hs'[r] # hs[r] =>
         /\ hs'[r].pc = "st_config"
         /\ NoRegion(hs'[r]) = NoRegion(hs[r])
         /\ UNCHANGED <<form, seq, cfg, prior, audit, ds, resp, calls, obs>>
    /\ hs[r].pc # "region" => hs'[r].region = hs[r].region

C24_RegionIsAdvisory ==
  []C24_RegionState /\ [][C24_RegionStep]_vars

\* the lookup gave nothing; the transfer was made, recorded and answered
C24_Witness ==
  \E r \in Reqs :
    /\ Done(r)
    /\ resp[r].status = 200
    /\ hs[r].region = Null
    /\ Len(audit) = 1
    /\ audit[1].region = Null
    /\ audit[1].success

(* ------------------------------------- the record and the transfer (C25) *)
\* C25: when a request has ended, each audit record written for it has
\* success = true exactly when a signAndBroadcast of the request returned
\* successfully; a request that sent tokens has no success = false record
C25_RecordTellsTransfer ==
  \A r \in Reqs :
    Done(r) =>
      \A i \in 1..Len(calls[r]) :
        calls[r][i].rec.success <=> obs[r].delivered >= 1

(* ------------------------------------------- one request at a time (C26) *)
\* the request is taken up when no other invocation is running
ReceiveInTurn(r, receiver) ==
  /\ \A q \in Reqs2 \ {r} : hs[q].pc \in {"idle", "done"}
  /\ Receive(r, "ip1", receiver, TRUE)

\* as NextTwo, the invocations following each other
NextSeq ==
  \/ \E r \in Reqs2, receiver \in {GoodAddr, BadAddr} : ReceiveInTurn(r, receiver)
  \/ \E r \in Reqs2 : HandlerConfig(r, TRUE)
  \/ \E r \in Reqs2 : CountIp(r, TRUE)
  \/ \E r \in Reqs2 : CountAddress(r, TRUE)
  \/ \E r \in Reqs2 : InsertDenied(r, "ok")
  \/ \E r \in Reqs2 : InsertInvalid(r, "ok")
  \/ \E r \in Reqs2, region \in Regions : FetchRegion(r, region)
  \/ \E r \in Reqs2, fetched \in BOOLEAN : SendTokensConfig(r, fetched)
  \/ \E r \in Reqs2, ok \in BOOLEAN : Connect(r, ok)
  \/ \E r \in Reqs2 : StabPoll(r, TRUE, FALSE)
  \/ \E r \in Reqs2 : StabFinal(r, TRUE, FALSE)
  \/ \E r \in Reqs2 : FinalCheck(r, TRUE)
  \/ \E r \in Reqs2 : BroadcastOnChain(r)
  \/ \E r \in Reqs2 : ConfirmPoll(r, TRUE, FALSE)
  \/ \E r \in Reqs2 : ConfirmFinal(r, TRUE)
  \/ \E r \in Reqs2 : GetChainId(r, TRUE)
  \/ \E r \in Reqs2 : GetSenderBalance(r, TRUE)
  \/ \E r \in Reqs2 : GetReceiverBalance(r, TRUE)
  \/ \E r \in Reqs2 : Backoff(r)
  \/ \E r \in Reqs2 : InsertSuccess(r, "ok")
  \/ \E r \in Reqs2 : CatchHandler(r, "ok")
  \/ ChainIncludes
  \/ DayPasses

SpecSeq == InitTwo /\ [][NextSeq]_vars

\* C26: with the requests handled one after the other and every count query
\* and audit append answered, the rows with success = true of one IP, and of
\* one receiver address, that lie inside the 24 hour window are never more
\* than the limit; a request is admitted only while both are below it
C26_CapState ==
  /\ \A ip \in IPs :
       Cardinality(SuccessRowsByIp(ip)) <= RequestsLimit(cfg.requests_limit_per_day)
  /\ \A a \in Receivers :
       Cardinality(SuccessRowsByAddress(a)) <= RequestsLimit(cfg.requests_limit_per_day)
  /\ \A r \in Reqs2 : \A q \in Reqs2 \ {r} :
       hs[r].pc \notin {"idle", "done"} => hs[q].pc \in {"idle", "done"}

C26_AdmitStep ==
  \A r \in Reqs2 :
    (Leaves(r, "count_addr") /\ hs'[r].decision = "allow") =>
      /\ Cardinality(SuccessRowsByIp(hs[r].ip)) < hs[r].limit
      /\ Cardinality(SuccessRowsByAddress(hs[r].receiver_address)) < hs[r].limit

C26_SequentialHardCap ==
  []C26_CapState /\ [][C26_AdmitStep]_vars

\* the first request was paid and recorded; the second, from the same IP for
\* the same address within the day, was denied
C26_Witness ==
  \E r \in Reqs2 : \E q \in Reqs2 \ {r} :
    /\ Done(r) /\ resp[r].status = 200
    /\ Done(q) /\ resp[q].status = 429 /\ resp[q].rateLimitType = "both"
    /\ Cardinality(SuccessRowsByIp("ip1")) = 1
    /\ Len(audit) = 2

(* ------------------------------------------ the failed count query (C27) *)
\* C27: a count query that the store answers with a non-OK reply or with a
\* body that is no array gives the count 0. Each count the handler holds is
\* the number of rows in the store or 0, the decision is taken on the counts
\* held, and with both at 0 it is "allow": after two failed queries the
\* request is admitted whatever the store holds
C27_CountsHeldState ==
  \A r \in Reqs :
    /\ (Len(audit) = 0 /\ hs[r].ip \in IPs) =>
         /\ hs[r].ipRequestCount \in {0, prior.ip[hs[r].ip]}
         /\ hs[r].addressRequestCount \in {0, prior.address[hs[r].receiver_address]}
    /\ hs[r].decision = "allow" =>
         hs[r].ipRequestCount < hs[r].limit /\ hs[r].addressRequestCount < hs[r].limit
    /\ hs[r].decision \in {"ip", "both"} => hs[r].ipRequestCount >= hs[r].limit
    /\ hs[r].decision \in {"address", "both"} => hs[r].addressRequestCount >= hs[r].limit

C27_FailedQueryStep ==
  \A r \in Reqs :
    /\ CountIp(r, FALSE) => hs'[r].ipRequestCount = 0
    /\ CountAddress(r, FALSE) =>
         /\ hs'[r].addressRequestCount = 0
         /\ hs[r].ipRequestCount = 0 => hs'[r].decision = "allow"

C27_QuotaFailsOpen ==
  []C27_CountsHeldState /\ [][C27_FailedQueryStep]_vars

\* the store holds a full quota of the IP and of the address; both queries
\* failed and the request was admitted
C27_Witness ==
  \E r \in Reqs :
    /\ hs[r].pc = "region"
    /\ hs[r].decision = "allow"
    /\ hs[r].ipRequestCount = 0
    /\ hs[r].addressRequestCount = 0
    /\ prior.ip[hs[r].ip] >= hs[r].limit
    /\ prior.address[hs[r].receiver_address] >= hs[r].limit

(* --------------------------------------- any configured limit (C30) *)
\* as Init, with the configured limit any integer the config table may
\* hold, the negative ones included
InitAnyLimit ==
  /\ seq = 0
  /\ cfg \in [requests_limit_per_day : (0 - MaxCfgLimit)..MaxCfgLimit, valid : BOOLEAN]
  /\ prior \in [ip : [IPs -> 0..MaxPrior], address : [Receivers -> 0..MaxPrior]]
  /\ \A k \in Receivers : ~StartsWith(k, PREFIX) => prior.address[k] = 0
  /\ audit = <<>>
  /\ hs = [r \in Reqs |-> HsInit]
  /\ ds = [r \in Reqs |-> DsInit]
  /\ resp = [r \in Reqs |-> NoResponse]
  /\ calls = [r \in Reqs |-> <<>>]
  /\ obs = [r \in Reqs |-> ObsInit]
  /\ form = FormInit

SpecAnyLimit == InitAnyLimit /\ [][Next]_vars

\* C30: a configured limit of 0 counts as 3, so that with it no request
\* whose two counts are below 3 is denied; and under no configuration is a
\* request denied whose IP and address have no success in the store, that
\* is, no configuration makes the quota deny every request
C30_NoConfigurationDeniesAll ==
  \A r \in Reqs :
    hs[r].decision \in {"ip", "address", "both"} =>
      /\ cfg.requests_limit_per_day = 0 =>
           hs[r].ipRequestCount >= 3 \/ hs[r].addressRequestCount >= 3
      /\ hs[r].ipRequestCount > 0 \/ hs[r].addressRequestCount > 0

(* -------------------------------------------- the 200 response (C28) *)
\* C28: a response with status 200 has success = true and the hash of a
\* transaction; the request has made one insertUserRequest call, whose
\* record has success = true and the hash of the response, and a row of the
\* request in the store is that record
C28_OkResponseState ==
  \A r \in Reqs :
    resp[r].status = 200 =>
      /\ resp[r].hasSuccess /\ resp[r].success
      /\ resp[r].transactionHash # NoHash
      /\ Len(calls[r]) = 1
      /\ calls[r][1].rec.success
      /\ calls[r][1].rec.transaction_hash = resp[r].transactionHash
      /\ \A i \in 1..Len(audit) :
           audit[i].req = r => audit[i] = calls[r][1].rec

C28_OkResponseStep ==
  \A r \in Reqs :
    (resp[r].status = 0 /\ resp'[r].status = 200) =>
      /\ hs[r].pc = "log_success"
      /\ hs[r].tx_success
      /\ resp'[r].transactionHash = hs[r].tx_hash

C28_OkResponseMatchesRecord ==
  []C28_OkResponseState /\ [][C28_OkResponseStep]_vars

\* the second attempt paid; its hash is in the response and in the row
C28_Witness ==
  \E r \in Reqs :
    /\ resp[r].status = 200
    /\ resp[r].transactionHash = Hash(r, 2)
    /\ obs[r].delivered = 1
    /\ Len(audit) = 1
    /\ audit[1].success
    /\ audit[1].transaction_hash = Hash(r, 2)

(* ------------------------------- the backoff after FinalCheck (C29) *)
\* C29: the error thrown when the read before signing differs from the
\* stabilizer's value starts with "Sequence", with a capital, and holds no
\* "sequence"; the catch of the loop body therefore takes it for another
\* error and waits 1000 ms, not the 5000 ms of a sequence conflict: while
\* that error is the last one of the call, the last wait was the short one
C29_FinalCheckMessage ==
  /\ FinalCheckMsg[1] = "Sequence"
  /\ \A i \in 1..Len(FinalCheckMsg) : FinalCheckMsg[i] # "sequence"
  /\ \A r \in Reqs :
       ds[r].txError = FinalCheckMsg => obs[r].backoff = OtherBackoffMs

C29_FinalCheckStep ==
  \A r \in Reqs :
    /\ (Leaves(r, "final_check") /\ seq # ds[r].stableSequence
          /\ hs'[r].pc = "backoff") =>
         ds'[r].caught \in {FinalCheckMsg, TransportMsg}
    /\ (Leaves(r, "backoff") /\ ds[r].caught = FinalCheckMsg) =>
         /\ obs'[r].backoff = OtherBackoffMs
         /\ obs'[r].backoff # SeqBackoffMs
         /\ ds'[r].txError = FinalCheckMsg

C29_FinalCheckShortBackoff ==
  []C29_FinalCheckMessage /\ [][C29_FinalCheckStep]_vars

\* the sequence moved between the stabilizer's return and the read before
\* signing; the attempt was given up after the short wait
C29_Witness ==
  \E r \in Reqs :
    /\ hs[r].pc = "connect"
    /\ ds[r].txError = FinalCheckMsg
    /\ obs[r].backoff = OtherBackoffMs
    /\ ds[r].retries = 4
    /\ seq = 1

(* --------------------------------- the value the stabilizer returns (C31) *)
\* C31: waitForSequenceStable returns the value of the latest read of its
\* call, on the stable path and on the timeout path: while the loop runs
\* lastSequence is the value read last, and the step that returns hands back
\* the value the chain gave in that very step
C31_LastReadState ==
  \A r \in Reqs :
    /\ (hs[r].pc \in {"stab_poll", "stab_final"} /\ obs[r].reads > 0) =>
          ds[r].lastSequence = obs[r].last
    /\ hs[r].pc = "final_check" =>
          /\ obs[r].stab \in {"stable", "timeout", "unstable"}
          /\ obs[r].reads >= 1
          /\ ds[r].stableSequence = obs[r].last

C31_ReturnStep ==
  \A r \in Reqs :
    (hs[r].pc \in {"stab_poll", "stab_final"} /\ hs'[r].pc = "final_check") =>
      /\ ds'[r].stableSequence = seq
      /\ obs'[r].last = seq

C31_ReturnsLatestRead ==
  []C31_LastReadState /\ [][C31_ReturnStep]_vars

\* the last read gave a new value, after reads that agreed, when the time
\* was up: that value is returned, not the one seen before
C31_Witness ==
  \E r \in Reqs :
    /\ hs[r].pc = "final_check"
    /\ obs[r].stab = "timeout"
    /\ obs[r].reads = 1
    /\ obs[r].last = 1
    /\ ds[r].stableSequence = 1

(* ------------------------------------------------ the client form (C32) *)
\* 'addr_safro', the prefix the form tests, in the letters of the addresses
FormPrefix == <<"s", "f">>

FormAddresses == {GoodAddr, BadAddr}

UnknownErrorMsg == <<"Unknown", "error">>
SlowDownMsg == <<"slow", "down">>

\* the answers the fetch of sendTransaction can get: the responses of the
\* handler, a 200 without a transaction hash (with and without an error
\* text), a 429 of a gateway without rateLimitType, an error response that
\* carries a hash; NoResponse stands for a fetch that rejects
FormReplies ==
  { NoResponse,
    Response(200, TRUE, TRUE, Hash("r1", 1), Null, NoMsg),
    Response(200, TRUE, FALSE, NoHash, Null, UnknownErrorMsg),
    Response(200, FALSE, FALSE, NoHash, Null, NoMsg),
    Response(429, TRUE, FALSE, NoHash, "ip", RateLimitMsg),
    Response(429, FALSE, FALSE, NoHash, Null, NoMsg),
    Response(429, FALSE, FALSE, NoHash, Null, SlowDownMsg),
    Response(400, FALSE, FALSE, NoHash, Null, InvalidReceiverMsg),
    Response(500, TRUE, FALSE, NoHash, Null, RetriesPrefix \o TransportMsg),
    Response(500, TRUE, FALSE, Hash("r1", 1), Null, AuditThrowMsg) }

\* what response.json() gives: it throws, or the body is null, or an object
Parsed == {"throws", "null", "object"}

isRateLimitErrorMessage(message) ==
  /\ message # NoMsg
  /\ \/ Includes(message, <<"429">>)
     \/ Includes(message, <<"Rate", "limit">>)
     \/ Includes(message, <<"daily", "limit">>)
     \/ Includes(message, <<"Too", "Many", "Requests">>)
     \/ Includes(message, <<"per", "24h">>)

\* response.ok
ResponseOk(reply) == reply.status >= 200 /\ reply.status <= 299

\* the ApiError sendTransaction throws for a 429 or another error response
ApiError(reply) ==
  [error |-> IF reply.error # NoMsg THEN reply.error
             ELSE IF reply.status = 429 THEN RateLimitMsg
             ELSE <<"Request", "failed:">>,
   rateLimitType |-> reply.rateLimitType]

\* the catch of handleSubmit, entered with an ApiError
CatchToast(error) ==
  IF error.rateLimitType # Null \/ isRateLimitErrorMessage(error.error)
    THEN "rate_limit" ELSE "failed"

\* the toast handleSubmit ends with, once the body has been read: a null
\* body raises a TypeError (reading data.error or rawTxResult.error), which
\* the catch takes for an error that is no rate limit
ToastAfter(reply, parsed) ==
  IF parsed \in {"throws", "null"} THEN "failed"
  ELSE IF reply.status = 429 \/ ~ResponseOk(reply) THEN CatchToast(ApiError(reply))
  ELSE IF reply.transactionHash = NoHash THEN "tx_error"
  ELSE "success"

\* as AddressAfter, with the form cleared in the finally block
AddressAfterAlwaysCleared(address, toast) == EmptyAddr

\* setAddress('') on the success path only
AddressAfter(address, toast) == IF toast = "success" THEN EmptyAddr ELSE address

\* handleSubmit has returned (the finally block has run where there is one)
Finished(toast) ==
  form' = [form EXCEPT !.pc = "idle", !.isLoading = FALSE, !.toast = toast,
                       !.address = AddressAfter(form.address, toast),
                       !.submits = @ + 1]

\* the user edits the field, which is disabled while isLoading
TypeAddress(a) ==
  /\ form.pc = "idle"
  /\ ~form.isLoading
  /\ form.address # a
  /\ form' = [form EXCEPT !.address = a]
  /\ UNCHANGED <<seq, cfg, prior, audit, hs, ds, resp, calls, obs>>

\* handleSubmit up to its first await: the prefix test, then sendTransaction
Submit ==
  /\ form.pc = "idle"
  /\ form.submits < MaxSubmits
  /\ IF ~StartsWith(form.address, FormPrefix)
       THEN Finished("invalid")
       ELSE form' = [form EXCEPT !.pc = "fetch", !.isLoading = TRUE,
                                 !.sent = form.address, !.reply = NoResponse]
  /\ UNCHANGED <<seq, cfg, prior, audit, hs, ds, resp, calls, obs>>

\* the fetch of sendTransaction settles: rejected, or a response whose body
\* is read next
Fetch(reply) ==
  /\ form.pc = "fetch"
  /\ IF reply = NoResponse
       THEN Finished("failed")
       ELSE form' = [form EXCEPT !.pc = "json", !.reply = reply]
  /\ UNCHANGED <<seq, cfg, prior, audit, hs, ds, resp, calls, obs>>

\* response.json() settles; sendTransaction returns or throws; handleSubmit
\* runs to its end
Json(parsed) ==
  /\ form.pc = "json"
  /\ Finished(ToastAfter(form.reply, parsed))
  /\ UNCHANGED <<seq, cfg, prior, audit, hs, ds, resp, calls, obs>>

InitForm ==
  /\ seq = 0
  /\ cfg = [requests_limit_per_day |-> 0, valid |-> TRUE]
  /\ prior = [ip |-> [k \in IPs |-> 0], address |-> [k \in Receivers |-> 0]]
  /\ audit = <<>>
  /\ hs = [r \in Reqs |-> HsInit]
  /\ ds = [r \in Reqs |-> DsInit]
  /\ resp = [r \in Reqs |-> NoResponse]
  /\ calls = [r \in Reqs |-> <<>>]
  /\ obs = [r \in Reqs |-> ObsInit]
  /\ form = FormInit

NextForm ==
  \/ \E a \in FormAddresses : TypeAddress(a)
  \/ Submit
  \/ \E reply \in FormReplies : Fetch(reply)
  \/ \E parsed \in Parsed : Json(parsed)

SpecForm == InitForm /\ [][NextForm]_vars

\* C32: isLoading is true exactly while handleSubmit is waiting for
\* sendTransaction, so that it is false again when handleSubmit has finished,
\* on every path; the step that finishes it empties the address field only
\* when the response was an OK one with a transaction hash whose body could
\* be read, and leaves the address as entered on every other path
C32_LoadingState ==
  /\ form.isLoading <=> form.pc \in {"fetch", "json"}
  /\ (form.pc = "idle" /\ form.toast = "success") =>
       form.reply.transactionHash # NoHash /\ form.reply.status = 200

C32_FinishStep ==
  form'.submits # form.submits =>
    /\ form'.submits = form.submits + 1
    /\ form'.pc = "idle"
    /\ form'.isLoading = FALSE
    /\ form'.address \in {form.address, EmptyAddr}
    /\ form'.address # form.address =>
         /\ form.pc = "json"
         /\ form.reply.status = 200
         /\ form.reply.transactionHash # NoHash
         /\ form'.toast = "success"
    /\ form'.toast \in {"invalid", "tx_error", "rate_limit", "failed"} =>
         form'.address = form.address

C32_FormAfterSubmit ==
  []C32_LoadingState /\ [][C32_FinishStep]_vars

\* a 200 without a transaction hash: the form is idle again, not loading,
\* and holds the address that was sent
C32_Witness ==
  /\ form.pc = "idle"
  /\ form.submits = 1
  /\ form.toast = "tx_error"
  /\ form.reply.status = 200
  /\ form.reply.transactionHash = NoHash
  /\ ~form.isLoading
  /\ form.address = GoodAddr
  /\ form.sent = GoodAddr

====
